---- MODULE Spec2Model ----
(***************************************************************************)
(* Model of uber_app.py: a Streamlit script that loads a CSV of Uber        *)
(* pickups through a memoized loader (load_data under @st.cache) and, on   *)
(* every run of the script, derives a 24-bin histogram of pickup hours and *)
(* the rows of the hour selected by a sidebar slider.                      *)
(*                                                                         *)
(* One run of the script is one atomic step: the script is executed top to *)
(* bottom by the host on the first visit and after every widget change.    *)
(* A row of the table carries its pandas index label and its date/time     *)
(* cell; the lat/lon/base cells are never read by the script and are left  *)
(* out of the rows (their column names are kept).                          *)
(***************************************************************************)
EXTENDS Integers, Sequences, FiniteSets, TLC

VARIABLES
    source,                     \* rows of the remote CSV (text of the Date/Time cell)
    nrows,                      \* the row limit the script passes to load_data
    cache,                      \* st.cache's store for load_data: argument -> entry
    fetchCount,                 \* how many times the body of load_data has been executed
    net,                        \* outcome of the download made by the last run
    session,                    \* "none", "fresh" (no widget touched yet), "interacted"
    show_raw_data_widget,       \* sidebar checkbox
    map_hour_to_filter_widget,  \* sidebar slider
    status,                     \* how the last run ended: "none", "ok", "error"
    error,                      \* the exception that ended the last run
    data,                       \* the script's global data in the last run
    raw_view,                   \* the table handed to st.dataframe
    hist_values,                \* the histogram handed to st.bar_chart
    filtered_data               \* the table handed to st.map

vars == <<source, nrows, cache, fetchCount, net, session, show_raw_data_widget,
          map_hour_to_filter_widget, status, error, data, raw_view, hist_values,
          filtered_data>>

(***************************************************************************)
(* Bounds of the model.                                                    *)
(***************************************************************************)
MaxRows == 3        \* rows in the remote file
MaxLimit == 3       \* largest row limit passed to load_data
MaxFetch == 2       \* executions of load_data's body in one behaviour

(***************************************************************************)
(* Program constants.                                                      *)
(***************************************************************************)
DATE_COLUMN == "date/time"
SliderMin == 0
SliderMax == 23
SliderDefault == 17
Bins == 24
RangeLo == 0
RangeHi == 24

\* float NaN, the hour of a missing timestamp; compares false with everything
NaN == -1

\* NaT, what pd.to_datetime makes of a missing cell; all its fields are NaN
NaT == [day |-> NaN, hour |-> NaN, minute |-> NaN]

\* the value of the script's variables when a run did not reach their assignment
NoTable == [columns |-> <<>>, rows |-> <<>>]
NoHist == <<>>
NoEntry == [present |-> FALSE, value |-> NoTable]

(***************************************************************************)
(* The remote file.                                                        *)
(***************************************************************************)
Header == <<"Date/Time", "Lat", "Lon", "Base">>

\* cells of the Date/Time column: two timestamps (one in the last hour of the
\* day), an empty cell and text that is no date
Cells == {"9/1/2014 17:03:00", "9/2/2014 23:59:00", "", "n/a"}

SeqsUpTo(S, n) == UNION {[1..k -> S] : k \in 0..n}

Min(a, b) == IF a <= b THEN a ELSE b

(***************************************************************************)
(* load_data                                                               *)
(***************************************************************************)
\* pd.read_csv(DATA_URL, nrows=nrows) reading every row, whatever nrows is
read_csv_all(rows, n) ==
    [columns |-> Header,
     rows |-> [i \in 1..Len(rows) |-> [index |-> i - 1, dt |-> rows[i]]]]

\* pd.read_csv(DATA_URL, nrows=nrows): the first nrows rows, indexed from 0
read_csv(rows, n) ==
    [columns |-> Header,
     rows |-> [i \in 1..Min(n, Len(rows)) |-> [index |-> i - 1, dt |-> rows[i]]]]

\* str(x).lower() on the column names of the file
lower(x) ==
    CASE x = "Date/Time" -> "date/time"
      [] x = "Lat" -> "lat"
      [] x = "Lon" -> "lon"
      [] x = "Base" -> "base"
      [] OTHER -> x

\* data.rename(lambda x: str(x).lower(), axis="columns")
rename(t) == [t EXCEPT !.columns = [i \in 1..Len(t.columns) |-> lower(t.columns[i])]]

\* the texts pd.to_datetime can parse; an empty cell is read as missing
Parseable(s) == s \in {"9/1/2014 17:03:00", "9/2/2014 23:59:00", ""}

\* pd.to_datetime on one cell
parse_datetime(s) ==
    CASE s = "9/1/2014 17:03:00" -> [day |-> 1, hour |-> 17, minute |-> 3]
      [] s = "9/2/2014 23:59:00" -> [day |-> 2, hour |-> 23, minute |-> 59]
      [] OTHER -> NaT

\* pd.to_datetime(..., errors="coerce"): never raises
to_datetime_raises_coerce(t) == FALSE

\* pd.to_datetime(data[DATE_COLUMN]) raises when a cell cannot be parsed
to_datetime_raises(t) == \E i \in 1..Len(t.rows) : ~Parseable(t.rows[i].dt)

\* data[DATE_COLUMN] = pd.to_datetime(data[DATE_COLUMN])
to_datetime(t) ==
    [t EXCEPT !.rows = [i \in 1..Len(t.rows) |-> [t.rows[i] EXCEPT !.dt = parse_datetime(@)]]]

\* the body of load_data; fetch is the outcome of the download
load_data(rows, n, fetch) ==
    IF fetch = "fail"
    THEN [ok |-> FALSE, error |-> "FetchError", table |-> NoTable]
    ELSE LET renamed == rename(read_csv(rows, n))
         IN  IF to_datetime_raises(renamed)
             THEN [ok |-> FALSE, error |-> "ParseError", table |-> NoTable]
             ELSE [ok |-> TRUE, error |-> "none", table |-> to_datetime(renamed)]

\* a lookup that never finds the entry
cache_hit_never(c, key) == FALSE

\* @st.cache: is there a stored result for this argument
cache_hit(c, key) == c[key].present

\* @st.cache: store the result of a call that returned
cache_store(c, key, value) == [c EXCEPT ![key] = [present |-> TRUE, value |-> value]]

(***************************************************************************)
(* The derived views                                                       *)
(***************************************************************************)
\* data[DATE_COLUMN].dt.hour
dt_hour(t) == [i \in 1..Len(t.rows) |-> t.rows[i].dt.hour]

\* an upper edge that leaves the last hour out
in_range_short(v) == v # NaN /\ v >= RangeLo /\ v < RangeHi - 1

\* np.histogram keeps the values inside range, both edges included; NaN is
\* inside no range
in_range(v) == v # NaN /\ v >= RangeLo /\ v <= RangeHi

\* bins laid over a range one unit too wide
bin_index_wide(v) == ((v - RangeLo) * Bins) \div (RangeHi - RangeLo + 1)

\* bins shifted by one
bin_index_shift(v) == IF v >= RangeHi - 1 THEN Bins - 1 ELSE v - RangeLo + 1

\* np.histogram: equal-width bins, the last one closed on the right
bin_index(v) ==
    IF v = RangeHi THEN Bins - 1 ELSE ((v - RangeLo) * Bins) \div (RangeHi - RangeLo)

RECURSIVE histogram_acc(_, _, _)
histogram_acc(a, k, n) ==
    IF k > Len(a) THEN n
    ELSE histogram_acc(a, k + 1,
            IF in_range(a[k]) THEN [n EXCEPT ![bin_index(a[k]) + 1] = @ + 1] ELSE n)

\* np.histogram(a, bins=24, range=(0,24))[0]; element i+1 is bucket i
histogram(a) == histogram_acc(a, 1, [i \in 1..Bins |-> 0])

\* a mask that takes every hour from the selected one on
hour_mask_ge(h, hour) == h # NaN /\ h >= hour

\* a mask that also takes the rows without a timestamp
hour_mask_nan(h, hour) == h = NaN \/ h = hour

\* data[DATE_COLUMN].dt.hour == hour, element-wise; NaN equals nothing
hour_mask(h, hour) == h # NaN /\ h = hour

RECURSIVE select_rows(_, _, _)
select_rows(rows, hour, k) ==
    IF k > Len(rows) THEN <<>>
    ELSE IF hour_mask(rows[k].dt.hour, hour)
         THEN <<rows[k]>> \o select_rows(rows, hour, k + 1)
         ELSE select_rows(rows, hour, k + 1)

\* data[mask]: the rows where the mask is true, in order, with their index labels
filterByHour(t, hour) == [t EXCEPT !.rows = select_rows(t.rows, hour, 1)]

\* the filter applied with the slider's default, not its value
selected_hour_stale(hour) == SliderDefault

\* the hour the script filters by: the slider's value
selected_hour(hour) == hour

(***************************************************************************)
(* The widgets                                                             *)
(***************************************************************************)
\* a slider that lets one value past its maximum through
SliderValuesWide == SliderMin..(SliderMax + 1)

\* st.sidebar.slider('Hour', 0, 23, 17): the values the slider can take
SliderValues == SliderMin..SliderMax

(***************************************************************************)
(* One run of the script with the given widget values.                     *)
(***************************************************************************)
ScriptRun(show, hour) ==
    IF cache_hit(cache, nrows)
    THEN /\ data' = cache[nrows].value
         /\ UNCHANGED <<cache, fetchCount>>
         /\ net' = "none"
         /\ status' = "ok"
         /\ error' = "none"
         /\ raw_view' = IF show THEN data' ELSE NoTable
         /\ hist_values' = histogram(dt_hour(data'))
         /\ filtered_data' = filterByHour(data', selected_hour(hour))
    ELSE \E fetch \in {"ok", "fail"} :
         LET r == load_data(source, nrows, fetch)
         IN  /\ fetchCount < MaxFetch
             /\ fetchCount' = fetchCount + 1
             /\ net' = fetch
             /\ IF r.ok
                THEN /\ cache' = cache_store(cache, nrows, r.table)
                     /\ data' = r.table
                     /\ status' = "ok"
                     /\ error' = "none"
                     /\ raw_view' = IF show THEN data' ELSE NoTable
                     /\ hist_values' = histogram(dt_hour(data'))
                     /\ filtered_data' = filterByHour(data', selected_hour(hour))
                ELSE /\ UNCHANGED cache
                     /\ data' = NoTable
                     /\ status' = "error"
                     /\ error' = r.error
                     /\ raw_view' = NoTable
                     /\ hist_values' = NoHist
                     /\ filtered_data' = NoTable

Init ==
    /\ source \in SeqsUpTo(Cells, MaxRows)
    /\ nrows \in 0..MaxLimit
    /\ cache = [n \in 0..MaxLimit |-> NoEntry]
    /\ fetchCount = 0
    /\ net = "none"
    /\ session = "none"
    /\ show_raw_data_widget = FALSE
    /\ map_hour_to_filter_widget = SliderDefault
    /\ status = "none"
    /\ error = "none"
    /\ data = NoTable
    /\ raw_view = NoTable
    /\ hist_values = NoHist
    /\ filtered_data = NoTable

\* a browser opens (or reloads) the page: the widgets take their defaults and
\* the script runs; the cache lives in the process and is kept
NewSession ==
    /\ session' = "fresh"
    /\ show_raw_data_widget' = FALSE
    /\ map_hour_to_filter_widget' = SliderDefault
    /\ ScriptRun(FALSE, SliderDefault)
    /\ UNCHANGED <<source, nrows>>

\* the user moves the slider: the script runs again with the new value
SliderChange ==
    /\ session # "none"
    /\ \E h \in SliderValues :
          /\ h # map_hour_to_filter_widget
          /\ map_hour_to_filter_widget' = h
          /\ ScriptRun(show_raw_data_widget, h)
    /\ session' = "interacted"
    /\ UNCHANGED <<source, nrows, show_raw_data_widget>>

\* the user ticks or unticks the checkbox: the script runs again
CheckboxToggle ==
    /\ session # "none"
    /\ show_raw_data_widget' = ~show_raw_data_widget
    /\ ScriptRun(~show_raw_data_widget, map_hour_to_filter_widget)
    /\ session' = "interacted"
    /\ UNCHANGED <<source, nrows, map_hour_to_filter_widget>>

Next == NewSession \/ SliderChange \/ CheckboxToggle

Spec == Init /\ [][Next]_vars

TypeOK ==
    /\ nrows \in 0..MaxLimit
    /\ fetchCount \in 0..MaxFetch
    /\ status \in {"none", "ok", "error"}
    /\ session \in {"none", "fresh", "interacted"}

(***************************************************************************)
(* Vocabulary of the properties                                            *)
(***************************************************************************)
Cached == cache[nrows].present

RECURSIVE SumSeq(_)
SumSeq(q) == IF q = <<>> THEN 0 ELSE Head(q) + SumSeq(Tail(q))

RowsOf(t) == {t.rows[k] : k \in 1..Len(t.rows)}

\* the rows of t whose timestamp has hour i
RowsWithHour(t, i) == {k \in 1..Len(t.rows) : t.rows[k].dt.hour = i}

\* the rows of t that have a timestamp
Timestamped(t) == {k \in 1..Len(t.rows) : t.rows[k].dt # NaT}

\* the rows of the remote file that a load with the current limit reads
RowsRead == 1..Min(nrows, Len(source))

(***************************************************************************)
(* C1 as stated: the body of load_data (the download and the parse) is     *)
(* executed at most once for a row limit. Refuted: a run whose download or *)
(* parse fails stores nothing, and the next run executes the body again.   *)
(***************************************************************************)
C1_BodyAtMostOnce == fetchCount <= 1

(***************************************************************************)
(* C1 amended: the body of load_data returns at most once for a row limit. *)
(* The first run in which it returns stores its Table under the row limit; *)
(* every run after that downloads nothing, executes the body no more,      *)
(* leaves the stored Table as it is and returns that Table. Only runs in   *)
(* which the body raises are followed by another execution.                *)
(***************************************************************************)
C1_NoFetchOnceCached ==
    [][ /\ Cached =>
              /\ fetchCount' = fetchCount
              /\ net' = "none"
              /\ cache'[nrows] = cache[nrows]
              /\ data' = cache[nrows].value
        /\ (~Cached /\ status' = "ok") =>
              /\ fetchCount' = fetchCount + 1
              /\ cache'[nrows] = [present |-> TRUE, value |-> data']
        /\ (~Cached /\ status' = "error") => ~cache'[nrows].present
      ]_vars

\* a run served from the cache after the one execution of the body
C1_Witness ==
    /\ Cached /\ status = "ok" /\ net = "none" /\ fetchCount = 1
    /\ data = cache[nrows].value /\ Len(data.rows) > 0

(***************************************************************************)
(* C2: a load that succeeds returns the first min(N, rows of the source)   *)
(* rows, so at most N; rows past the limit are never read: an unparseable  *)
(* cell makes the load fail only when it is among the first N rows.        *)
(***************************************************************************)
C2_RowLimit ==
    /\ status = "ok" =>
          /\ Len(data.rows) <= nrows
          /\ Len(data.rows) = Min(nrows, Len(source))
          /\ \A k \in 1..Len(data.rows) : data.rows[k].index = k - 1
    /\ error = "ParseError" => \E i \in RowsRead : source[i] = "n/a"

\* a source longer than the limit, loaded, with an unparseable row past the limit
C2_Witness ==
    /\ status = "ok" /\ nrows > 0 /\ Len(source) > nrows
    /\ Len(data.rows) = nrows /\ source[Len(source)] = "n/a"

(***************************************************************************)
(* C3: the histogram is a sequence of exactly 24 non-negative integers and *)
(* bucket i (element i+1) is the number of records whose hour is i.        *)
(***************************************************************************)
C3_HistogramBuckets ==
    status = "ok" =>
        /\ Len(hist_values) = 24
        /\ \A i \in 0..23 :
              /\ hist_values[i + 1] \in Nat
              /\ hist_values[i + 1] = Cardinality(RowsWithHour(data, i))

\* hours 17, 17, 23: 2 at index 17, 1 at index 23, 0 elsewhere
C3_Witness ==
    /\ status = "ok" /\ Len(data.rows) = 3
    /\ hist_values[18] = 2 /\ hist_values[24] = 1 /\ hist_values[1] = 0

C5_FilterExact ==
    status = "ok" =>
        LET f == filtered_data.rows
            h == map_hour_to_filter_widget
        IN  /\ filtered_data.columns = data.columns
            /\ \A k \in 1..Len(f) : f[k] \in RowsOf(data) /\ f[k].dt.hour = h
            /\ \A k \in 1..Len(data.rows) :
                  data.rows[k].dt.hour = h => data.rows[k] \in RowsOf(filtered_data)
            /\ \A j, k \in 1..Len(f) : j < k => f[j].index < f[k].index

\* rows 0 and 2 of a three-row Table selected, row 1 left out
C5_Witness ==
    /\ status = "ok" /\ Len(data.rows) = 3 /\ Len(filtered_data.rows) = 2
    /\ filtered_data.rows[1].index = 0 /\ filtered_data.rows[2].index = 2

(***************************************************************************)
(* C6: when no record has the selected hour the run ends normally with an  *)
(* empty filtered view; a run ends in error only because the load raised.  *)
(***************************************************************************)
C6_NoMatchEmpty ==
    /\ (status = "ok" /\ RowsWithHour(data, map_hour_to_filter_widget) = {}) =>
          /\ filtered_data.rows = <<>>
          /\ filtered_data.columns = data.columns
          /\ error = "none"
    /\ status = "error" => (~Cached /\ error \in {"FetchError", "ParseError"})
    /\ Cached => status = "ok"

\* a Table with records, none of them in the selected hour
C6_Witness ==
    /\ status = "ok" /\ Len(data.rows) > 0 /\ filtered_data.rows = <<>>
    /\ \E k \in 1..Len(data.rows) : data.rows[k].dt = NaT

C8_RerunFrame ==
    [][ Cached =>
          /\ cache' = cache
          /\ fetchCount' = fetchCount
          /\ status' = "ok"
          /\ hist_values' = histogram(dt_hour(cache[nrows].value))
          /\ filtered_data' =
                [columns |-> cache[nrows].value.columns,
                 rows |-> SelectSeq(cache[nrows].value.rows,
                             LAMBDA r : r.dt.hour = map_hour_to_filter_widget')]
          /\ raw_view' = IF show_raw_data_widget' THEN cache[nrows].value ELSE NoTable
      ]_vars

\* both widgets changed, the views recomputed for hour 23 without a download
C8_Witness ==
    /\ Cached /\ session = "interacted" /\ net = "none"
    /\ show_raw_data_widget /\ map_hour_to_filter_widget = 23
    /\ raw_view = cache[nrows].value /\ Len(filtered_data.rows) > 0

(***************************************************************************)
(* C9: the hour the filter runs with is the slider's value, an integer in  *)
(* 0..23, and 17 as long as no widget has been touched.                    *)
(***************************************************************************)
C9_HourInRange ==
    /\ map_hour_to_filter_widget \in 0..23
    /\ session # "interacted" => map_hour_to_filter_widget = 17
    /\ status = "ok" =>
          \A k \in 1..Len(filtered_data.rows) :
              filtered_data.rows[k].dt.hour \in 0..23

\* the first run: hour 17, and the filter found records of hour 17
C9_Witness ==
    /\ session = "fresh" /\ status = "ok" /\ map_hour_to_filter_widget = 17
    /\ Len(filtered_data.rows) > 0

====
